---- MODULE Spec2Model ----
(***************************************************************************)
(* Model of stock_forecasting.py: the data stage (get_stock_data), the     *)
(* forecast stage (forecast_stock) and the Dash callback (update_tab).     *)
(*                                                                         *)
(* Values are tagged records.  A cell of a table is [kind, v]; a table, a  *)
(* forecast, a chart and a message are records with a "kind" field.        *)
(* Python's None is the record None; an exception leaving a function is    *)
(* the record Raised.                                                      *)
(***************************************************************************)
EXTENDS Integers, Sequences, FiniteSets, TLC

VARIABLES slots, rendered, latest, call

vars == <<slots, rendered, latest, call>>

----------------------------------------------------------------------------
(* Bounds of the explored inputs *)

MaxRows == 2
MaxDate == 2
MaxHorizon == 1

----------------------------------------------------------------------------
(* Python values *)

None == [kind |-> "None"]
Raised == [kind |-> "Raise"]

IsNone(x) == x.kind = "None"
IsRaised(x) == x.kind = "Raise"

(* cells *)
Ts(d) == [kind |-> "ts", v |-> d]
NaT == [kind |-> "NaT", v |-> 0]
Num(p) == [kind |-> "num", v |-> p]
NaN == [kind |-> "NaN", v |-> 0]
Text == [kind |-> "text", v |-> 0]
RangePos(i) == [kind |-> "int", v |-> i]

IsNA(c) == c.kind \in {"NaT", "NaN"}

----------------------------------------------------------------------------
(* Sequence helpers *)

RECURSIVE SortedSeq(_)
SortedSeq(S) ==
    IF S = {} THEN <<>>
    ELSE LET m == CHOOSE x \in S : \A y \in S : x <= y
         IN <<m>> \o SortedSeq(S \ {m})

(* position of the first column called name, 0 when there is none *)
ColPos(columns, name) ==
    IF \E i \in 1..Len(columns) : columns[i] = name
    THEN CHOOSE i \in 1..Len(columns) :
            /\ columns[i] = name
            /\ \A j \in 1..(i - 1) : columns[j] # name
    ELSE 0

HasCol(columns, name) == ColPos(columns, name) # 0

----------------------------------------------------------------------------
(* pandas operations used by the data stage *)

(* "_".join(col) for the column tuples the provider produces *)
JoinLevels(col) ==
    CASE col = <<"Close", "AAPL">> -> "Close_AAPL"
      [] col = <<"Open", "AAPL">> -> "Open_AAPL"
      [] OTHER -> "Other"

(* "Close" in c, for the flat column names of the model *)
ContainsClose(c) == c \in {"Close", "Close_AAPL", "Adj Close"}

(* pd.to_datetime(..., errors="coerce") on one cell *)
to_datetime(c) ==
    CASE c.kind = "ts" -> c
      [] c.kind = "int" -> Ts(c.v)
      [] OTHER -> NaT

(* pd.to_numeric(..., errors="coerce") on one cell *)
to_numeric(c) ==
    CASE c.kind = "num" -> c
      [] c.kind = "int" -> Num(c.v)
      [] OTHER -> NaN

(* df[name] = pd.to_datetime(df[name], errors="coerce") *)
DatetimeCol(df, name) ==
    LET p == ColPos(df.columns, name)
    IN [df EXCEPT !.rows = [i \in 1..Len(df.rows) |->
                               [df.rows[i] EXCEPT ![p] = to_datetime(df.rows[i][p])]]]

(* df[name] = pd.to_numeric(df[name], errors="coerce") *)
NumericCol(df, name) ==
    LET p == ColPos(df.columns, name)
    IN [df EXCEPT !.rows = [i \in 1..Len(df.rows) |->
                               [df.rows[i] EXCEPT ![p] = to_numeric(df.rows[i][p])]]]

(* df.rename(columns={old: new}) *)
RenameCol(df, old, new) ==
    [df EXCEPT !.columns = [i \in 1..Len(df.columns) |->
                               IF df.columns[i] = old THEN new ELSE df.columns[i]]]

(* flatten MultiIndex columns; a raw column label is the tuple of its levels,
   a flat label has one level *)
FlattenColumns(raw) ==
    IF raw.multi
    THEN [i \in 1..Len(raw.columns) |-> JoinLevels(raw.columns[i])]
    ELSE [i \in 1..Len(raw.columns) |-> raw.columns[i][1]]

(* df.reset_index(): the index becomes the first column, called after the
   index name, or "index" when the index has no name *)
reset_index(raw) ==
    [kind |-> "df",
     columns |-> <<IF raw.index = "" THEN "index" ELSE raw.index>>
                   \o FlattenColumns(raw),
     rows |-> [i \in 1..Len(raw.rows) |-> <<raw.rows[i].t>> \o raw.rows[i].v]]

(* df["Date"] = df.index after reset_index: the positions 0..n-1 *)
DateFromIndex(df) ==
    [df EXCEPT !.columns = df.columns \o <<"Date">>,
               !.rows = [i \in 1..Len(df.rows) |-> df.rows[i] \o <<RangePos(i - 1)>>]]

ResolveDate(df) ==
    IF HasCol(df.columns, "Date") THEN df
    ELSE IF HasCol(df.columns, "Datetime") THEN RenameCol(df, "Datetime", "Date")
    ELSE DateFromIndex(df)

ResolveClose(df) ==
    IF HasCol(df.columns, "Close") THEN df
    ELSE LET possible_close ==
                 SelectSeq(df.columns, LAMBDA c : ContainsClose(c))
         IN IF possible_close # <<>>
            THEN RenameCol(df, possible_close[1], "Close")
            ELSE df

dropna_keep_all(df, subset) == df

(* df.dropna(subset=...) *)
dropna(df, subset) ==
    [df EXCEPT !.rows =
        SelectSeq(df.rows,
                   LAMBDA r : \A n \in subset : ~IsNA(r[ColPos(df.columns, n)]))]

(* df.empty *)
Empty(df) == df.rows = <<>> \/ df.columns = <<>>

(* the body of get_stock_data's try block, given what yf.download did *)
get_stock_data_body(resp) ==
    IF resp.kind = "Raise" THEN Raised
    ELSE IF Empty(resp) THEN None
    ELSE LET d1 == ResolveDate(reset_index(resp))
             d2 == DatetimeCol(d1, "Date")
             d3 == ResolveClose(d2)
         IN IF ~HasCol(d3.columns, "Close") THEN Raised
            ELSE dropna(NumericCol(d3, "Close"), {"Date", "Close"})

get_stock_data_uncaught(resp) == get_stock_data_body(resp)

get_stock_data(resp) ==
    LET r == get_stock_data_body(resp)
    IN IF IsRaised(r) THEN None ELSE r

(* df[name] as a sequence of cells *)
Column(df, name) ==
    [i \in 1..Len(df.rows) |-> df.rows[i][ColPos(df.columns, name)]]

----------------------------------------------------------------------------
(* What yf.download can hand back: an exception or a table.  A raw table has
   an index (named "Date", "Datetime" or unnamed), flat or MultiIndex column
   labels, and rows made of an index cell t and one cell per column v. *)

Prices == {100}
DateCells == {Ts(d) : d \in 1..MaxDate} \cup {NaT, Text}
PriceCells == {Num(p) : p \in Prices} \cup {NaN, Text}
IndexNames == {"Date", "Datetime", ""}
Layouts == {[multi |-> FALSE, columns |-> << <<"Close">> >>],
            [multi |-> TRUE, columns |-> << <<"Close", "AAPL">> >>],
            [multi |-> FALSE, columns |-> << <<"Open">> >>]}

Table(ix, layout, rows) ==
    [kind |-> "table", index |-> ix, multi |-> layout.multi,
     columns |-> layout.columns, rows |-> rows]

RawRows == {[t |-> t, v |-> <<c>>] : t \in DateCells, c \in PriceCells}
RowSeqs == UNION {[1..n -> RawRows] : n \in 0..MaxRows}
RawTables == {Table(ix, l, rs) : ix \in IndexNames, l \in Layouts, rs \in RowSeqs}
ProviderResponses == {Raised} \cup RawTables

----------------------------------------------------------------------------
(* The forecast stage *)

(* what the Prophet model does on this call: it fits at the given level, or
   its fit or predict raises *)
ProphetResponses == {[kind |-> "raise", level |-> 0], [kind |-> "ok", level |-> 100]}

(* Prophet(...).fit(model_df), make_future_dataframe(periods), predict(future):
   fit drops rows without y, refuses fewer than 2 rows and a missing ds; the
   future frame is the sorted distinct history dates followed by the periods
   days after the last one *)
Prophet(model_df, periods, m) ==
    LET history == SelectSeq(model_df.rows, LAMBDA r : r[2].kind # "NaN")
    IN IF \/ m.kind = "raise"
          \/ Len(history) < 2
          \/ \E i \in 1..Len(history) : history[i][1].kind # "ts"
       THEN Raised
       ELSE LET dates == SortedSeq({history[i][1].v : i \in 1..Len(history)})
                last == dates[Len(dates)]
                n == Len(dates)
                k == IF periods > 0 THEN periods ELSE 0
            IN [kind |-> "forecast",
                rows |-> [i \in 1..(n + k) |->
                    LET w == IF i > n THEN 1 + (i - n) ELSE 1
                    IN [ds |-> IF i <= n THEN dates[i] ELSE last + (i - n),
                        yhat |-> m.level,
                        yhat_lower |-> m.level - w,
                        yhat_upper |-> m.level + w]]]

(* df[["Date", "Close"]].rename(columns={"Date": "ds", "Close": "y"}) *)
ModelFrame(df) ==
    [kind |-> "df", columns |-> <<"ds", "y">>,
     rows |-> [i \in 1..Len(df.rows) |->
                  <<df.rows[i][ColPos(df.columns, "Date")],
                    df.rows[i][ColPos(df.columns, "Close")]>>]]

(* whether forecast_stock gets as far as model.fit *)
ReachesFit(df) ==
    /\ df.kind = "df"
    /\ HasCol(df.columns, "Date")
    /\ HasCol(df.columns, "Close")

(* the body of forecast_stock's try block *)
forecast_stock_body(df, periods, m) ==
    IF ~ReachesFit(df) THEN Raised
    ELSE LET m1 == dropna(ModelFrame(df), {"ds", "y"})
             m2 == NumericCol(DatetimeCol(m1, "ds"), "y")
             model_df == dropna(m2, {"ds", "y"})
         IN Prophet(model_df, periods, m)

forecast_stock(df, periods, m) ==
    LET r == forecast_stock_body(df, periods, m)
    IN IF IsRaised(r) THEN None ELSE r

----------------------------------------------------------------------------
(* The callback update_tab *)

(* the entries of the catalog, value -> label *)
stock_options ==
    [value \in {"AAPL", "TSLA"} |->
        IF value = "AAPL" THEN "Apple (AAPL)" ELSE "Tesla (TSLA)"]

NoDataMsg ==
    [kind |-> "Div", text |-> "No data found for selected asset or data fetch failed."]
ForecastFailedMsg ==
    [kind |-> "Div", text |-> "Forecasting failed. Check data format."]

Values(cells) == [i \in 1..Len(cells) |-> cells[i].v]

Scatter(x, y, name, fill) == [x |-> x, y |-> y, name |-> name, fill |-> fill]

Graph(title, traces) == [kind |-> "Graph", title |-> title, traces |-> traces]

DfUnusable_no_none_check(df) == ~IsNone(df) /\ Empty(df)

(* df is None or df.empty *)
DfUnusable(df) == IsNone(df) \/ Empty(df)

(* forecast is None or forecast.empty *)
ForecastUnusable(forecast) == IsNone(forecast) \/ forecast.rows = <<>>

render_band_first(ticker, forecast_days, tab, df, forecast) ==
    LET dates == Values(Column(df, "Date"))
        close == Values(Column(df, "Close"))
        ds == [i \in 1..Len(forecast.rows) |-> forecast.rows[i].ds]
        yhat == [i \in 1..Len(forecast.rows) |-> forecast.rows[i].yhat]
        yhat_upper == [i \in 1..Len(forecast.rows) |-> forecast.rows[i].yhat_upper]
        title == [label |-> ticker, days |-> forecast_days, text |-> "chart"]
    IN IF tab = "tab1"
       THEN Graph(title, <<Scatter(dates, close, "Close Price", "none"),
                           Scatter(ds, yhat, "Forecast", "none")>>)
       ELSE IF tab = "tab2"
       THEN Graph(title, <<Scatter(dates, close, "Actual", "none"),
                           Scatter(ds, yhat_upper, "Confidence Interval", "tonexty"),
                           Scatter(ds, yhat, "Forecast", "none")>>)
       ELSE None

(* lines 213-250: the label and the branch on tab; a tab that is neither
   'tab1' nor 'tab2' falls off the end of the function, which returns None *)
render(ticker, forecast_days, tab, df, forecast) ==
    LET label == IF ticker \in DOMAIN stock_options
                 THEN stock_options[ticker] ELSE ticker
        dates == Values(Column(df, "Date"))
        close == Values(Column(df, "Close"))
        ds == [i \in 1..Len(forecast.rows) |-> forecast.rows[i].ds]
        yhat == [i \in 1..Len(forecast.rows) |-> forecast.rows[i].yhat]
        yhat_upper == [i \in 1..Len(forecast.rows) |-> forecast.rows[i].yhat_upper]
    IN IF tab = "tab1"
       THEN Graph([label |-> label, days |-> 0, text |-> "Historical Price"],
                  <<Scatter(dates, close, "Close Price", "none")>>)
       ELSE IF tab = "tab2"
       THEN Graph([label |-> label, days |-> forecast_days,
                   text |-> "Day Forecast (Prophet)"],
                  <<Scatter(dates, close, "Actual", "none"),
                    Scatter(ds, yhat, "Forecast", "none"),
                    Scatter(ds, yhat_upper, "Confidence Interval", "tonexty")>>)
       ELSE None

fetch_df_sticky(resp) ==
    IF rendered.out = NoDataMsg THEN None ELSE get_stock_data(resp)

(* line 203: every run fetches its own frame *)
fetch_df(resp) == get_stock_data(resp)

forecast_and_render_lazy(ticker, forecast_days, tab, df, m) ==
    IF tab = "tab1"
    THEN [forecast |-> None, forecast_calls |-> 0, fits |-> 0,
          out |-> render(ticker, forecast_days, tab, df, None)]
    ELSE LET forecast == forecast_stock(df, forecast_days, m)
         IN [forecast |-> forecast, forecast_calls |-> 1,
             fits |-> IF ReachesFit(df) THEN 1 ELSE 0,
             out |-> IF ForecastUnusable(forecast) THEN ForecastFailedMsg
                     ELSE render(ticker, forecast_days, tab, df, forecast)]

(* lines 208-250, once the frame passed the check of line 204 *)
forecast_and_render(ticker, forecast_days, tab, df, m) ==
    LET forecast == forecast_stock(df, forecast_days, m)
    IN [forecast |-> forecast,
        forecast_calls |-> 1,
        fits |-> IF ReachesFit(df) THEN 1 ELSE 0,
        out |-> IF ForecastUnusable(forecast) THEN ForecastFailedMsg
                ELSE render(ticker, forecast_days, tab, df, forecast)]

----------------------------------------------------------------------------
(* The session: each slot is one request thread of the server running
   update_tab, so two runs can overlap; a run is split at its two blocking
   calls.  `rendered' is the children of 'tabs-content', written by
   whichever run returns; `latest' is the slot of the most recent trigger.
   The callback is handed whatever the request carries: the two tab values
   of the layout or another one, and a horizon that may be 0. *)

Slots == {1, 2}
Tickers == {"AAPL", ""}
Tabs == {"tab1", "tab2", "tab3"}
Horizons == 0..MaxHorizon

EmptyTable == Table("Date", [multi |-> FALSE, columns |-> << <<"Close">> >>], <<>>)
NoCloseTable ==
    Table("Date", [multi |-> FALSE, columns |-> << <<"Open">> >>],
          <<[t |-> Ts(1), v |-> <<Num(100)>>], [t |-> Ts(2), v |-> <<Num(100)>>]>>)
AllBadTable ==
    Table("Date", [multi |-> FALSE, columns |-> << <<"Close">> >>],
          <<[t |-> Ts(1), v |-> <<Text>>], [t |-> NaT, v |-> <<Num(100)>>]>>)
GoodTable ==
    Table("Date", [multi |-> TRUE, columns |-> << <<"Close", "AAPL">> >>],
          <<[t |-> Ts(1), v |-> <<Num(100)>>], [t |-> Ts(2), v |-> <<Num(100)>>]>>)

ShortTable ==
    Table("Datetime", [multi |-> FALSE, columns |-> << <<"Close">> >>],
          <<[t |-> Ts(2), v |-> <<NaN>>], [t |-> Ts(1), v |-> <<Num(100)>>]>>)

(* yf.download(ticker, ...) in a session: the provider has nothing for the
   empty ticker; for another ticker it fails, or returns one of the tables
   above (no rows, no close column, no usable row, one usable row, all rows
   usable) *)
yf_download(ticker) ==
    IF ticker = "" THEN {Raised, EmptyTable}
    ELSE {Raised, EmptyTable, NoCloseTable, AllBadTable, ShortTable, GoodTable}

Idle ==
    [pc |-> "idle", ticker |-> "", forecast_days |-> 0, tab |-> "",
     resp |-> None, df |-> None, model |-> None, forecast |-> None,
     out |-> None, fetches |-> 0, forecast_calls |-> 0, fits |-> 0]

NoCall == [fn |-> "none", arg |-> None, periods |-> 0, model |-> None, ret |-> None]

Init ==
    /\ slots = [s \in Slots |-> Idle]
    /\ rendered = [by |-> 0, out |-> None]
    /\ latest = 0
    /\ call = NoCall

(* a change of the dropdown, the slider or the tabs starts a run *)
Trigger(s) ==
    /\ slots[s].pc = "idle"
    /\ \E ticker \in Tickers, forecast_days \in Horizons, tab \in Tabs :
          slots' = [slots EXCEPT ![s] =
                       [Idle EXCEPT !.pc = "get_stock_data", !.ticker = ticker,
                                    !.forecast_days = forecast_days, !.tab = tab]]
    /\ latest' = s
    /\ UNCHANGED <<rendered, call>>

(* lines 203-206 *)
Fetch(s) ==
    /\ slots[s].pc = "get_stock_data"
    /\ \E resp \in yf_download(slots[s].ticker) :
          LET df == fetch_df(resp)
          IN slots' = [slots EXCEPT ![s] =
                 [@ EXCEPT !.resp = resp, !.df = df, !.fetches = @ + 1,
                           !.pc = IF IsRaised(df) THEN "raised"
                                  ELSE IF DfUnusable(df) THEN "return"
                                  ELSE "forecast_stock",
                           !.out = IF IsRaised(df) THEN None
                                   ELSE IF DfUnusable(df) THEN NoDataMsg
                                   ELSE @]]
    /\ UNCHANGED <<rendered, latest, call>>

(* lines 208-250 *)
Forecast(s) ==
    /\ slots[s].pc = "forecast_stock"
    /\ \E m \in ProphetResponses :
          LET r == forecast_and_render(slots[s].ticker, slots[s].forecast_days,
                                       slots[s].tab, slots[s].df, m)
          IN slots' = [slots EXCEPT ![s] =
                 [@ EXCEPT !.model = m, !.forecast = r.forecast,
                           !.forecast_calls = @ + r.forecast_calls,
                           !.fits = @ + r.fits,
                           !.out = r.out, !.pc = "return"]]
    /\ UNCHANGED <<rendered, latest, call>>

(* the return value becomes the children of 'tabs-content'; a run that
   raised renders nothing *)
Return(s) ==
    /\ slots[s].pc \in {"return", "raised"}
    /\ rendered' = IF slots[s].pc = "return"
                   THEN [by |-> s, out |-> slots[s].out]
                   ELSE rendered
    /\ slots' = [slots EXCEPT ![s] = Idle]
    /\ UNCHANGED <<latest, call>>

Next == \E s \in Slots : Trigger(s) \/ Fetch(s) \/ Forecast(s) \/ Return(s)

Spec == Init /\ [][Next]_vars

----------------------------------------------------------------------------
(* The two stages on their own, over all bounded inputs *)

StageHorizons == (0 - 1)..MaxHorizon

Frames == {get_stock_data(t) : t \in RawTables}

CallGetStockData ==
    /\ call.fn = "none"
    /\ \E resp \in ProviderResponses :
          call' = [fn |-> "get_stock_data", arg |-> resp, periods |-> 0,
                   model |-> None, ret |-> get_stock_data(resp)]
    /\ UNCHANGED <<slots, rendered, latest>>

CallForecastStock ==
    /\ call.fn = "none"
    /\ \E df \in Frames, periods \in StageHorizons, m \in ProphetResponses :
          call' = [fn |-> "forecast_stock", arg |-> df, periods |-> periods,
                   model |-> m, ret |-> forecast_stock(df, periods, m)]
    /\ UNCHANGED <<slots, rendered, latest>>

NextStages == CallGetStockData \/ CallForecastStock

SpecStages == Init /\ [][NextStages]_vars

----------------------------------------------------------------------------
(* Properties *)

PastFetch(s) == slots[s].pc \in {"forecast_stock", "return", "raised"}
Returning(s) == slots[s].pc = "return"

IsTable(resp) == resp.kind = "table"
NoRows(resp) == IsTable(resp) /\ resp.rows = <<>>
HasCloseLike(resp) ==
    IsTable(resp) /\ \E i \in 1..Len(resp.columns) : resp.columns[i][1] = "Close"
(* the date and the price the provider gave for row i *)
RowDate(resp, i) == IF resp.index = "" THEN RangePos(i - 1) ELSE resp.rows[i].t
RowPrice(resp, i) ==
    resp.rows[i].v[CHOOSE j \in 1..Len(resp.columns) : resp.columns[j][1] = "Close"]
RowParseable(resp, i) ==
    /\ HasCloseLike(resp)
    /\ RowDate(resp, i).kind \in {"ts", "int"}
    /\ RowPrice(resp, i).kind \in {"num", "int"}
IsChart(out) == out.kind = "Graph"
StrictlyIncreasing(xs) == \A i \in 1..(Len(xs) - 1) : xs[i] < xs[i + 1]

(* C1: every run of update_tab returns a chart, the "no data" message or the
   "forecast failed" message, and nothing else *)
C1_ExactlyOneOutcome ==
    \A s \in Slots :
        Returning(s) =>
            \/ IsChart(slots[s].out)
            \/ slots[s].out = NoDataMsg
            \/ slots[s].out = ForecastFailedMsg

(* C2: when the provider fetch returns no rows or fails, the run returns the
   "no data" message and forecast_stock is not called in that run *)
C2_NoDataWithoutForecast ==
    \A s \in Slots :
        (PastFetch(s) /\ (IsRaised(slots[s].resp) \/ NoRows(slots[s].resp))) =>
            /\ Returning(s)
            /\ slots[s].out = NoDataMsg
            /\ slots[s].forecast_calls = 0
            /\ slots[s].fits = 0

C2_Witness ==
    \E s \in Slots :
        /\ Returning(s)
        /\ NoRows(slots[s].resp)
        /\ slots[s].fetches = 1
        /\ slots[s].out = NoDataMsg

(* C3: when the fetch returns rows but no row has both a parseable date and
   a parseable price, the run returns "no data", not "forecast failed" *)
C3_AllRowsDroppedIsNoData ==
    \A s \in Slots :
        (/\ PastFetch(s)
         /\ IsTable(slots[s].resp)
         /\ Len(slots[s].resp.rows) >= 1
         /\ \A i \in 1..Len(slots[s].resp.rows) : ~RowParseable(slots[s].resp, i)) =>
            /\ Returning(s)
            /\ slots[s].out = NoDataMsg
            /\ slots[s].out # ForecastFailedMsg
            /\ slots[s].forecast_calls = 0

C3_Witness ==
    \E s \in Slots :
        /\ Returning(s)
        /\ IsTable(slots[s].resp)
        /\ HasCloseLike(slots[s].resp)
        /\ Len(slots[s].resp.rows) >= 1
        /\ slots[s].df.kind = "df"
        /\ slots[s].df.rows = <<>>
        /\ slots[s].out = NoDataMsg

(* C4: forecast_stock called with a horizon <= 0 returns None *)
C4_NonPositiveHorizonRejected ==
    (call.fn = "forecast_stock" /\ call.periods <= 0) => IsNone(call.ret)

(* C5: once no run is in flight, what is rendered comes from the run that was
   triggered last *)
C5_LastTriggerIsRendered ==
    ((\A s \in Slots : slots[s].pc = "idle") /\ latest # 0) => rendered.by = latest

(* C6: no exception leaves get_stock_data, forecast_stock or update_tab; a
   provider failure ends in the "no data" message and a fit or predict
   failure in the "forecast failed" message *)
C6_NoExceptionEscapes ==
    \A s \in Slots :
        /\ slots[s].pc # "raised"
        /\ ~IsRaised(slots[s].df)
        /\ ~IsRaised(slots[s].forecast)
        /\ (PastFetch(s) /\ (\/ IsRaised(slots[s].resp)
                             \/ NoRows(slots[s].resp)
                             \/ slots[s].ticker = ""
                             \/ (IsTable(slots[s].resp) /\ ~HasCloseLike(slots[s].resp))))
              => (Returning(s) /\ IsNone(slots[s].df) /\ slots[s].out = NoDataMsg)
        /\ (Returning(s) /\ slots[s].model.kind = "raise")
              => (IsNone(slots[s].forecast) /\ slots[s].out = ForecastFailedMsg)

C6_Witness ==
    \E s, t \in Slots :
        /\ Returning(s)
        /\ IsTable(slots[s].resp)
        /\ ~HasCloseLike(slots[s].resp)
        /\ slots[s].out = NoDataMsg
        /\ Returning(t)
        /\ slots[t].model.kind = "raise"
        /\ slots[t].out = ForecastFailedMsg

(* C7: for a raw table with at least one parseable date/price pair,
   get_stock_data returns a series with strictly increasing dates and no
   missing date or price *)
C7_SeriesStrictlyIncreasing ==
    (/\ call.fn = "get_stock_data"
     /\ IsTable(call.arg)
     /\ \E i \in 1..Len(call.arg.rows) : RowParseable(call.arg, i)) =>
        /\ call.ret.kind = "df"
        /\ StrictlyIncreasing(Values(Column(call.ret, "Date")))
        /\ \A i \in 1..Len(call.ret.rows) :
              /\ Column(call.ret, "Date")[i].kind = "ts"
              /\ Column(call.ret, "Close")[i].kind = "num"

(* C8: with a usable series and a forecast, the historical view is one trace
   of price over date, and the forecast view is three traces: the actual
   prices, the point forecast over the forecast dates, and the upper bound
   filled towards the trace before it *)
C8_ChartTraces ==
    \A s \in Slots :
        (Returning(s) /\ slots[s].forecast.kind = "forecast") =>
            LET r == slots[s]
                tr == r.out.traces
                dates == Values(Column(r.df, "Date"))
                close == Values(Column(r.df, "Close"))
                ds == [i \in 1..Len(r.forecast.rows) |-> r.forecast.rows[i].ds]
            IN /\ r.tab = "tab1" =>
                    /\ IsChart(r.out)
                    /\ Len(tr) = 1
                    /\ tr[1].x = dates /\ tr[1].y = close /\ tr[1].fill = "none"
               /\ r.tab = "tab2" =>
                    /\ IsChart(r.out)
                    /\ Len(tr) = 3
                    /\ tr[1].x = dates /\ tr[1].y = close /\ tr[1].fill = "none"
                    /\ tr[2].x = ds /\ tr[2].fill = "none"
                    /\ tr[2].y = [i \in 1..Len(ds) |-> r.forecast.rows[i].yhat]
                    /\ tr[3].x = ds /\ tr[3].fill = "tonexty"
                    /\ tr[3].y = [i \in 1..Len(ds) |-> r.forecast.rows[i].yhat_upper]

C8_Witness ==
    \E s, t \in Slots :
        /\ Returning(s) /\ slots[s].tab = "tab1"
        /\ IsChart(slots[s].out) /\ Len(slots[s].out.traces) = 1
        /\ Returning(t) /\ slots[t].tab = "tab2"
        /\ IsChart(slots[t].out) /\ Len(slots[t].out.traces) = 3
        /\ slots[t].forecast_days >= 1

(* C9: two runs that got the same provider response hold the same frame, and
   two runs with the same inputs, provider response and model response
   return the same result, whatever was triggered or rendered before *)
C9_RunsIndependent ==
    \A s, t \in Slots :
        /\ (PastFetch(s) /\ PastFetch(t) /\ slots[s].resp = slots[t].resp)
              => slots[s].df = slots[t].df
        /\ (/\ Returning(s) /\ Returning(t)
            /\ slots[s].ticker = slots[t].ticker
            /\ slots[s].forecast_days = slots[t].forecast_days
            /\ slots[s].tab = slots[t].tab
            /\ slots[s].resp = slots[t].resp
            /\ slots[s].model = slots[t].model)
              => slots[s].out = slots[t].out

C9_Witness ==
    \E s, t \in Slots :
        /\ s # t
        /\ rendered.by = s
        /\ rendered.out \in {NoDataMsg, ForecastFailedMsg}
        /\ Returning(s) /\ Returning(t)
        /\ slots[s].resp = slots[t].resp
        /\ slots[s].model = slots[t].model
        /\ slots[s].tab = slots[t].tab
        /\ IsChart(slots[s].out)
        /\ slots[s].out = slots[t].out

(* C10: every run makes one provider fetch, and with a non-empty series one
   forecast_stock call with one fit, whatever the tab; so a failed forecast
   gives the "forecast failed" message on the historical tab too *)
C10_OneFetchOneFit ==
    \A s \in Slots :
        /\ PastFetch(s) => slots[s].fetches = 1
        /\ (Returning(s) /\ slots[s].df.kind = "df" /\ slots[s].df.rows # <<>>) =>
              /\ slots[s].forecast_calls = 1
              /\ slots[s].fits = 1
              /\ (slots[s].model.kind = "raise" => slots[s].out = ForecastFailedMsg)

C10_Witness ==
    \E s \in Slots :
        /\ Returning(s)
        /\ slots[s].tab = "tab1"
        /\ slots[s].fetches = 1
        /\ slots[s].fits = 1
        /\ slots[s].model.kind = "raise"
        /\ slots[s].out = ForecastFailedMsg

====
